---- MODULE Spec2Model ----
(***************************************************************************)
(* Lowering of the `extern "platform-intrinsic"` SIMD intrinsics           *)
(* (compiler/rustc_codegen_cranelift/src/intrinsics/simd.rs).              *)
(*                                                                         *)
(* One behaviour of the model is one invocation of                         *)
(* codegen_simd_intrinsic_call: the call (intrinsic name, operands,        *)
(* destination layout) is fixed by the initial state and the handler runs  *)
(* statement by statement until it returns, ends the compilation with      *)
(* span_fatal, or panics (assert!, unwrap, expect, unreachable!).          *)
(*                                                                         *)
(* Lane values: integer lanes are bit patterns 0 .. 2^bits - 1; float      *)
(* lanes are tuples <<"f", n>> (the number n), <<"nan">>, or the term of   *)
(* the instruction that computes them (<<"fadd", a, b>>, ...), so that the *)
(* order in which float instructions are chained is observable.            *)
(***************************************************************************)
EXTENDS Integers, Sequences, FiniteSets, TLC

\* Largest lane count (and shuffle output length) of the enumerated operands.
MaxLanes == 2

U16Max == 65535

Pow2(k) == 2 ^ k

\* A u32 index from the upper part of the u32 range (2^31 - 1, the largest
\* integer the model checker holds).
BigU32 == Pow2(30) + (Pow2(30) - 1)

\* ------------------------------------------------------------------ types

IntKind(b) == [cls |-> "Int", bits |-> b]
UintKind(b) == [cls |-> "Uint", bits |-> b]
FloatKind(b) == [cls |-> "Float", bits |-> b]

\* Ty: what `layout().ty` is.  tag "simd" is a #[repr(simd)] type of `count`
\* lanes of `kind`; tag "scalar" is a plain scalar of `kind` (count 0).
SimdTy(c, k) == [tag |-> "simd", count |-> c, kind |-> k]
ScalarTy(k) == [tag |-> "scalar", count |-> 0, kind |-> k]

is_simd(ty) == ty.tag = "simd"

\* A vector of lanes is a function on 0 .. count-1, as the source indexes it.
Vec(s) == [j \in 0 .. Len(s) - 1 |-> s[j + 1]]
LaneCount(lanes) == Cardinality(DOMAIN lanes)
VecsOver(c, S) == [0 .. c - 1 -> S]

\* A codegen'd operand (CValue): its type and the lanes it holds.
Operand(ty, lanes) == [ty |-> ty, lanes |-> lanes]
SimdOperand(k, lanes) == Operand(SimdTy(LaneCount(lanes), k), lanes)
ScalarOperand(k, v) == Operand(ScalarTy(k), Vec(<<v>>))

\* A MIR operand handed over raw (`o idx`): whether the constant-evaluation
\* service can evaluate it, its type (shape, elem, len) and its u32 values.
IdxArray(konst, vals) ==
    [konst |-> konst, shape |-> "array", elem |-> "u32", len |-> Len(vals), vals |-> vals]
IdxScalar(konst, v) ==
    [konst |-> konst, shape |-> "scalar", elem |-> "u32", len |-> 1, vals |-> <<v>>]
NoIdx == IdxScalar(FALSE, 0)

\* ------------------------------------------------------------------ names

\* An intrinsic name is the string stem ++ suffix; the suffix is kept as a
\* sequence of characters so that it can be parsed.  Every name that starts
\* with "simd_shuffle" is written with the stem "simd_shuffle".
Sym(s) == [stem |-> s, suffix |-> <<>>]
ShuffleName(suffix) == [stem |-> "simd_shuffle", suffix |-> suffix]

DigitVal(c) ==
    CASE c = "0" -> 0 [] c = "1" -> 1 [] c = "2" -> 2 [] c = "3" -> 3 [] c = "4" -> 4
      [] c = "5" -> 5 [] c = "6" -> 6 [] c = "7" -> 7 [] c = "8" -> 8 [] c = "9" -> 9
      [] OTHER -> -1

RECURSIVE ParseDigits(_, _)
ParseDigits(s, acc) ==
    IF s = <<>> THEN acc
    ELSE IF DigitVal(Head(s)) < 0 THEN -1
    ELSE IF acc * 10 + DigitVal(Head(s)) > U16Max THEN -1
    ELSE ParseDigits(Tail(s), acc * 10 + DigitVal(Head(s)))

\* str::parse::<u16>(): the value, or -1 for Err (empty, a lone sign, a
\* character that is no digit, overflow).  A leading "+" is accepted.
ParseU16(s) ==
    IF s = <<>> THEN -1
    ELSE IF Head(s) = "+" THEN (IF Tail(s) = <<>> THEN -1 ELSE ParseDigits(Tail(s), 0))
    ELSE ParseDigits(s, 0)

starts_with_simd_shuffle(name) == name.stem = "simd_shuffle"

\* ------------------------------------------------------------------ state

VARIABLES
    prev,      \* the calls lowered before this one whose destination it reads
    call,      \* [intrinsic, args, idx, ret]: the invocation being lowered
    pc,        \* position in the handler; "returned" | "fatal" | "panic" at the end
    n,         \* simd_shuffle: the output lane count n
    indexes,   \* simd_shuffle: the collected Vec<u16>
    i,         \* loop counter of the current for loop
    acc,       \* simd_reduce: res_val
    ret,       \* lanes written to the destination so far (lane -> value)
    reads,     \* lane reads emitted so far: <<operand name, lane>>
    diags,     \* diagnostics and panic messages, in order
    traps      \* trap instructions emitted so far

vars == <<prev, call, pc, n, indexes, i, acc, ret, reads, diags, traps>>

Terminal == {"returned", "fatal", "panic"}

NoLanes == <<>>

Diag(sev, kind, args) == [sev |-> sev, kind |-> kind, args |-> args]

InitCall(c) ==
    /\ prev = <<>>
    /\ call = c
    /\ pc = "dispatch"
    /\ n = 0
    /\ indexes = <<>>
    /\ i = 0
    /\ acc = 0
    /\ ret = NoLanes
    /\ reads = {}
    /\ diags = <<>>
    /\ traps = 0

\* fx.tcx.sess.span_fatal: reports and ends the compilation.
SpanFatal(kind, args) ==
    /\ diags' = Append(diags, Diag("fatal", kind, args))
    /\ pc' = "fatal"

\* assert!, unwrap, expect, unreachable!, panic!, span_bug!: the compiler panics.
Panic(kind, args) ==
    /\ diags' = Append(diags, Diag("panic", kind, args))
    /\ pc' = "panic"

\* report_simd_type_validation_error without the trap_unreachable call.
ReportWithoutTrap(ty) ==
    /\ diags' = Append(diags, Diag("error", "invalid monomorphization", <<call.intrinsic, ty>>))
    /\ traps' = traps
    /\ pc' = "returned"

\* report_simd_type_validation_error followed by the caller's `return`.
report_simd_type_validation_error(ty) ==
    /\ diags' = Append(diags, Diag("error", "invalid monomorphization", <<call.intrinsic, ty>>))
    /\ traps' = traps + 1
    /\ pc' = "returned"

\* A lane write through place_lane / place_field.
WriteLane(lane, v) == (lane :> v) @@ ret

\* ------------------------------------------------------------------ dispatch

CmpNames == {"simd_eq", "simd_ne", "simd_lt", "simd_le", "simd_gt", "simd_ge"}
BinopNames == {"simd_add", "simd_sub", "simd_mul", "simd_div", "simd_rem",
               "simd_shl", "simd_shr", "simd_and", "simd_or", "simd_xor"}
FminmaxNames == {"simd_fmin", "simd_fmax"}
FunaryNames == {"simd_fabs", "simd_fsqrt", "simd_ceil", "simd_floor", "simd_trunc"}
ReduceAddNames == {"simd_reduce_add_ordered", "simd_reduce_add_unordered"}
ReduceMulNames == {"simd_reduce_mul_ordered", "simd_reduce_mul_unordered"}
ReduceNoSeedNames == {"simd_reduce_and", "simd_reduce_or", "simd_reduce_xor",
                      "simd_reduce_min", "simd_reduce_max"}
ReduceBoolNames == {"simd_reduce_all", "simd_reduce_any"}

\* The arm of intrinsic_match! that a name selects: the symbol arms match the
\* whole name, the simd_shuffle arm any name with that prefix, `_` the rest.
Family(name) ==
    IF name.suffix = <<>> /\ name.stem = "simd_cast" THEN "cast"
    ELSE IF name.suffix = <<>> /\ name.stem \in CmpNames THEN "cmp"
    ELSE IF starts_with_simd_shuffle(name) THEN "shuffle"
    ELSE IF name.suffix = <<>> /\ name.stem = "simd_insert" THEN "insert"
    ELSE IF name.suffix = <<>> /\ name.stem = "simd_extract" THEN "extract"
    ELSE IF name.suffix = <<>> /\ name.stem = "simd_neg" THEN "neg"
    ELSE IF name.suffix = <<>> /\ name.stem \in BinopNames THEN "binop"
    ELSE IF name.suffix = <<>> /\ name.stem = "simd_fma" THEN "fma"
    ELSE IF name.suffix = <<>> /\ name.stem \in FminmaxNames THEN "fminmax"
    ELSE IF name.suffix = <<>> /\ name.stem = "simd_round" THEN "round"
    ELSE IF name.suffix = <<>> /\ name.stem \in FunaryNames THEN "funary"
    ELSE IF name.suffix = <<>> /\ name.stem \in ReduceAddNames THEN "reduce_add"
    ELSE IF name.suffix = <<>> /\ name.stem \in ReduceMulNames THEN "reduce_mul"
    ELSE IF name.suffix = <<>> /\ name.stem \in ReduceBoolNames THEN "reduce_bool"
    ELSE IF name.suffix = <<>> /\ name.stem \in ReduceNoSeedNames THEN "reduce"
    ELSE IF name.suffix = <<>> /\ name.stem = "simd_select" THEN "select"
    ELSE "unknown"

\* intrinsic_match!: enter the selected arm; the `_` arm is span_fatal.
Dispatch ==
    /\ pc = "dispatch"
    /\ IF Family(call.intrinsic) = "unknown"
       THEN /\ SpanFatal("Unknown SIMD intrinsic", <<call.intrinsic>>)
            /\ UNCHANGED <<prev, call, n, indexes, i, acc, ret, reads, traps>>
       ELSE /\ pc' = Family(call.intrinsic)
            /\ UNCHANGED <<prev, call, n, indexes, i, acc, ret, reads, diags, traps>>

\* ------------------------------------------------------------------ simd_shuffle

\* The u16 the index collection yields for a u32 index, -1 when
\* u16::try_from(idx) is Err.
IndexToU16(idx) == IF idx <= U16Max THEN idx ELSE -1

\* if !x.layout().ty.is_simd() { report; return }
ShuffleValidate ==
    /\ pc = "shuffle"
    /\ IF ~is_simd(call.a.ty)
       THEN /\ report_simd_type_validation_error(call.a.ty)
            /\ UNCHANGED <<prev, call, n, indexes, i, acc, ret, reads>>
       ELSE /\ pc' = "shuffle_n"
            /\ UNCHANGED <<prev, call, n, indexes, i, acc, ret, reads, diags, traps>>

\* let n: u16 = ...: the length of the index array for `simd_shuffle`, the
\* parsed suffix for `simd_shuffleN`.
ShuffleN ==
    /\ pc = "shuffle_n"
    /\ UNCHANGED <<prev, call, indexes, i, acc, ret, reads>>
    /\ IF call.intrinsic = Sym("simd_shuffle")
       THEN IF call.idx.shape = "array" /\ call.idx.elem = "u32"
            THEN IF call.idx.len > U16Max
                 THEN Panic("try_into", <<call.idx.len>>) /\ UNCHANGED <<n, traps>>
                 ELSE n' = call.idx.len /\ pc' = "shuffle_asserts"
                      /\ UNCHANGED <<diags, traps>>
            ELSE /\ diags' = Append(diags,
                        Diag("error", "simd_shuffle index must be an array of u32",
                             <<call.idx.shape, call.idx.elem>>))
                 /\ traps' = traps + 1
                 /\ pc' = "returned"
                 /\ UNCHANGED n
       ELSE IF ParseU16(call.intrinsic.suffix) < 0
            THEN Panic("ParseIntError", <<>>) /\ UNCHANGED <<n, traps>>
            ELSE n' = ParseU16(call.intrinsic.suffix) /\ pc' = "shuffle_asserts"
                 /\ UNCHANGED <<diags, traps>>

\* assert_eq!(x.layout(), y.layout()); assert_eq!(lane_ty, ret_lane_ty);
\* assert_eq!(u64::from(n), ret_lane_count);
ShuffleAsserts ==
    /\ pc = "shuffle_asserts"
    /\ UNCHANGED <<prev, call, n, indexes, i, acc, ret, reads, traps>>
    /\ IF call.a.ty # call.b.ty
       THEN Panic("assert_eq layout", <<call.a.ty, call.b.ty>>)
       ELSE IF call.a.ty.kind # call.ret.kind
       THEN Panic("assert_eq lane_ty", <<call.a.ty.kind, call.ret.kind>>)
       ELSE IF n # call.ret.count
       THEN Panic("assert_eq n", <<n, call.ret.count>>)
       ELSE pc' = "shuffle_indexes" /\ UNCHANGED diags

\* let indexes = { ... }: the first ret_lane_count u32 of the constant, each
\* converted to u16.
ShuffleIndexes ==
    /\ pc = "shuffle_indexes"
    /\ UNCHANGED <<prev, call, n, acc, ret, reads, traps>>
    /\ IF ~call.idx.konst
       THEN Panic("simd_shuffle* idx not const", <<>>) /\ UNCHANGED <<indexes, i>>
       ELSE IF call.idx.shape # "array"
       THEN Panic("unreachable", <<call.idx.shape>>) /\ UNCHANGED <<indexes, i>>
       ELSE IF call.idx.len < call.ret.count
       THEN Panic("get_bytes", <<call.idx.len, call.ret.count>>) /\ UNCHANGED <<indexes, i>>
       ELSE IF \E j \in 1 .. call.ret.count : IndexToU16(call.idx.vals[j]) < 0
       THEN Panic("try_from u32", <<>>) /\ UNCHANGED <<indexes, i>>
       ELSE /\ indexes' = [j \in 1 .. call.ret.count |-> IndexToU16(call.idx.vals[j])]
            /\ i' = 0
            /\ pc' = "shuffle_check"
            /\ UNCHANGED diags

\* The bound the indexes are checked against.
total_len(lane_count) == lane_count * 2

\* for &idx in &indexes { assert!(u64::from(idx) < total_len, ...) }
ShuffleCheck ==
    /\ pc = "shuffle_check"
    /\ UNCHANGED <<prev, call, n, indexes, acc, ret, reads, traps>>
    /\ IF i >= Len(indexes)
       THEN i' = 0 /\ pc' = "shuffle_lanes" /\ UNCHANGED diags
       ELSE IF ~(indexes[i + 1] < total_len(call.a.ty.count))
       THEN Panic("idx out of range", <<indexes[i + 1], total_len(call.a.ty.count)>>)
            /\ UNCHANGED i
       ELSE i' = i + 1 /\ UNCHANGED <<pc, diags>>

\* ShuffleSource with the two inputs exchanged.
ShuffleSourceSwapped(in_idx, lane_count) ==
    IF in_idx < lane_count THEN <<"y", in_idx>> ELSE <<"x", in_idx - lane_count>>

\* The input lane an index addresses: <<operand, lane>>.
ShuffleSource(in_idx, lane_count) ==
    IF in_idx < lane_count THEN <<"x", in_idx>> ELSE <<"y", in_idx - lane_count>>

\* for (out_idx, in_idx) in indexes.into_iter().enumerate() { ... }
ShuffleLane ==
    /\ pc = "shuffle_lanes"
    /\ UNCHANGED <<prev, call, n, indexes, acc, diags, traps>>
    /\ IF i >= Len(indexes)
       THEN pc' = "returned" /\ UNCHANGED <<i, ret, reads>>
       ELSE LET src == ShuffleSource(indexes[i + 1], call.a.ty.count)
                in_lane == IF src[1] = "x" THEN call.a.lanes[src[2]] ELSE call.b.lanes[src[2]]
            IN /\ reads' = reads \cup {src}
               /\ ret' = WriteLane(i, in_lane)
               /\ i' = i + 1
               /\ UNCHANGED pc

\* ------------------------------------------------------------------ simd_insert, simd_extract

\* ty.simd_size_and_type(tcx): the possible results, as lane counts, -1 for a
\* panic.  On a SIMD type it is the lane count.  The handlers that call it
\* without validating the type may hand it a non-SIMD type: it then panics
\* or, for a type with fields, answers from the fields.
simd_size_and_type(opnd) ==
    IF is_simd(opnd.ty) THEN {opnd.ty.count} ELSE {-1, LaneCount(opnd.lanes)}

\* idx_const.try_to_bits(Size::from_bytes(4)): the u32, -1 for None.
try_to_bits(idx) == IF idx.shape = "scalar" /\ idx.elem = "u32" THEN idx.vals[1] ELSE -1

\* `>` in place of `>=`.
IdxOutOfRangeOffByOne(idx, lane_count) == idx > lane_count

\* if idx >= lane_count.into()
IdxOutOfRange(idx, lane_count) == idx >= lane_count

\* InsertConst without the else branch: the handler goes on whatever the
\* constant-evaluation service answers.
InsertConstIgnored ==
    /\ pc = "insert"
    /\ pc' = "insert_bits"
    /\ UNCHANGED <<prev, call, n, indexes, i, acc, ret, reads, diags, traps>>

\* let idx_const = if let Some(..) = mir_operand_get_const_val(fx, idx) {..}
\* else { span_fatal }
InsertConst ==
    /\ pc = "insert"
    /\ UNCHANGED <<prev, call, n, indexes, i, acc, ret, reads, traps>>
    /\ IF ~call.idx.konst
       THEN SpanFatal("Index argument for simd_insert is not a constant", <<>>)
       ELSE pc' = "insert_bits" /\ UNCHANGED diags

\* let idx = ..try_to_bits(..); let (lane_count, _) = ..; if idx >= lane_count { span_fatal }
InsertBits ==
    /\ pc = "insert_bits"
    /\ UNCHANGED <<prev, call, indexes, i, acc, ret, reads, traps>>
    /\ IF try_to_bits(call.idx) < 0
       THEN Panic("kind not scalar", <<call.idx.shape>>) /\ UNCHANGED n
       ELSE \E lane_count \in simd_size_and_type(call.a) :
              IF lane_count < 0
              THEN Panic("simd_size_and_type called on invalid type", <<call.a.ty>>)
                   /\ UNCHANGED n
              ELSE IF IdxOutOfRange(try_to_bits(call.idx), lane_count)
              THEN SpanFatal("[simd_insert] idx >= lane_count",
                             <<try_to_bits(call.idx), lane_count>>)
                   /\ UNCHANGED n
              ELSE pc' = "insert_copy" /\ UNCHANGED <<n, diags>>

\* The destination left as it is.
CopyBaseOmitted(base) == ret

\* ret.write_cvalue(fx, base): the whole of base.
CopyBase(base) == base.lanes

InsertCopy ==
    /\ pc = "insert_copy"
    /\ ret' = CopyBase(call.a)
    /\ pc' = "insert_lane"
    /\ UNCHANGED <<prev, call, n, indexes, i, acc, reads, diags, traps>>

\* ret.place_field(fx, Field::new(idx)).write_cvalue(fx, val)
InsertLane ==
    /\ pc = "insert_lane"
    /\ ret' = WriteLane(try_to_bits(call.idx), call.b.lanes[0])
    /\ pc' = "returned"
    /\ UNCHANGED <<prev, call, n, indexes, i, acc, reads, diags, traps>>

ExtractValidate ==
    /\ pc = "extract"
    /\ IF ~is_simd(call.a.ty)
       THEN /\ report_simd_type_validation_error(call.a.ty)
            /\ UNCHANGED <<prev, call, n, indexes, i, acc, ret, reads>>
       ELSE /\ pc' = "extract_const"
            /\ UNCHANGED <<prev, call, n, indexes, i, acc, ret, reads, diags, traps>>

\* crate::trap::trap_unimplemented_ret_value: emits a trap and yields a
\* placeholder value of the given layout.
trap_unimplemented_ret_value(layout) == <<"trap", layout>>

\* The non-constant index handled as simd_insert handles it.
ExtractNotConstFatal ==
    /\ SpanFatal("Index argument for simd_extract is not a constant", <<>>)
    /\ UNCHANGED <<ret, traps>>

\* span_warn; trap_unimplemented_ret_value; ret.write_cvalue(fx, res); return
ExtractNotConst ==
    /\ diags' = Append(diags,
           Diag("warning", "Index argument for simd_extract is not a constant", <<>>))
    /\ traps' = traps + 1
    /\ ret' = WriteLane(0, trap_unimplemented_ret_value(call.ret))
    /\ pc' = "returned"

ExtractConst ==
    /\ pc = "extract_const"
    /\ UNCHANGED <<prev, call, n, indexes, i, acc, reads>>
    /\ IF ~call.idx.konst
       THEN ExtractNotConst
       ELSE pc' = "extract_bits" /\ UNCHANGED <<ret, diags, traps>>

ExtractBits ==
    /\ pc = "extract_bits"
    /\ UNCHANGED <<prev, call, indexes, i, acc, ret, reads, traps>>
    /\ IF try_to_bits(call.idx) < 0
       THEN Panic("kind not scalar", <<call.idx.shape>>) /\ UNCHANGED n
       ELSE \E lane_count \in simd_size_and_type(call.a) :
              IF lane_count < 0
              THEN Panic("simd_size_and_type called on invalid type", <<call.a.ty>>)
                   /\ UNCHANGED n
              ELSE IF IdxOutOfRange(try_to_bits(call.idx), lane_count)
              THEN SpanFatal("[simd_extract] idx >= lane_count",
                             <<try_to_bits(call.idx), lane_count>>)
                   /\ UNCHANGED n
              ELSE pc' = "extract_lane" /\ UNCHANGED <<n, diags>>

\* let ret_lane = v.value_lane(fx, idx); ret.write_cvalue(fx, ret_lane)
ExtractLane ==
    /\ pc = "extract_lane"
    /\ UNCHANGED <<prev, call, n, indexes, i, acc, traps>>
    /\ IF try_to_bits(call.idx) \notin DOMAIN call.a.lanes
       THEN Panic("lane out of bounds", <<try_to_bits(call.idx)>>) /\ UNCHANGED <<ret, reads>>
       ELSE /\ reads' = reads \cup {<<"v", try_to_bits(call.idx)>>}
            /\ ret' = WriteLane(0, call.a.lanes[try_to_bits(call.idx)])
            /\ pc' = "returned"
            /\ UNCHANGED diags

\* A simd_extract lowered next, on the destination the simd_insert just
\* lowered has written, with the same index operand.
ExtractOfInsert ==
    /\ pc = "returned"
    /\ Family(call.intrinsic) = "insert"
    /\ diags = <<>>
    /\ prev = <<>>
    /\ prev' = <<call>>
    /\ call' = [intrinsic |-> Sym("simd_extract"), a |-> Operand(call.ret, ret),
                b |-> call.b, c |-> call.c, idx |-> call.idx,
                ret |-> ScalarTy(call.ret.kind)]
    /\ pc' = "dispatch"
    /\ ret' = NoLanes
    /\ reads' = {}
    /\ n' = 0
    /\ UNCHANGED <<indexes, i, acc, diags, traps>>

\* ------------------------------------------------------------------ simd_select

\* v.value_lane(fx, lane) is defined on the lanes the operand has.
HasLane(opnd, lane) == lane \in DOMAIN opnd.lanes

SelectValidateM ==
    /\ pc = "select"
    /\ IF ~is_simd(call.a.ty)
       THEN /\ report_simd_type_validation_error(call.a.ty)
            /\ UNCHANGED <<prev, call, n, indexes, i, acc, ret, reads>>
       ELSE /\ pc' = "select_a"
            /\ UNCHANGED <<prev, call, n, indexes, i, acc, ret, reads, diags, traps>>

SelectValidateA ==
    /\ pc = "select_a"
    /\ IF ~is_simd(call.b.ty)
       THEN /\ report_simd_type_validation_error(call.b.ty)
            /\ UNCHANGED <<prev, call, n, indexes, i, acc, ret, reads>>
       ELSE /\ pc' = "select_assert"
            /\ UNCHANGED <<prev, call, n, indexes, i, acc, ret, reads, diags, traps>>

\* assert_eq!(a.layout(), b.layout()); let (lane_count, lane_ty) = ..
SelectAssert ==
    /\ pc = "select_assert"
    /\ UNCHANGED <<prev, call, indexes, acc, ret, reads, traps>>
    /\ IF call.b.ty # call.c.ty
       THEN Panic("assert_eq layout", <<call.b.ty, call.c.ty>>) /\ UNCHANGED <<n, i>>
       ELSE n' = call.b.ty.count /\ i' = 0 /\ pc' = "select_lanes" /\ UNCHANGED diags

\* The operands of the select instruction exchanged.
SelectValueSwapped(m_lane, a_lane, b_lane) == IF m_lane = 0 THEN a_lane ELSE b_lane

\* icmp_imm(IntCC::Equal, m_lane, 0); select(m_lane, b_lane, a_lane)
SelectValue(m_lane, a_lane, b_lane) == IF m_lane = 0 THEN b_lane ELSE a_lane

\* for lane in 0..lane_count { ... }  (m, a, b are the operands a, b, c of the call)
SelectLane ==
    /\ pc = "select_lanes"
    /\ UNCHANGED <<prev, call, n, indexes, acc, traps>>
    /\ IF i >= n
       THEN pc' = "returned" /\ UNCHANGED <<i, ret, reads, diags>>
       ELSE IF ~HasLane(call.a, i)
       THEN Panic("lane out of bounds", <<"m", i>>) /\ UNCHANGED <<i, ret, reads>>
       ELSE /\ reads' = reads \cup {<<"m", i>>, <<"a", i>>, <<"b", i>>}
            /\ ret' = WriteLane(i, SelectValue(call.a.lanes[i], call.b.lanes[i], call.c.lanes[i]))
            /\ i' = i + 1
            /\ UNCHANGED <<pc, diags>>

\* ------------------------------------------------------------------ scalar instructions

\* The signed reading of a bit pattern of the given width.
ToSigned(v, bits) == IF v >= Pow2(bits - 1) THEN v - Pow2(bits) ELSE v

Wrap(v, bits) == v % Pow2(bits)

RECURSIVE BitOp(_, _, _, _)
BitOp(op, a, b, bits) ==
    IF bits = 0 THEN 0
    ELSE LET x == a % 2
             y == b % 2
             r == CASE op = "band" -> x * y
                    [] op = "bor" -> IF x + y > 0 THEN 1 ELSE 0
                    [] op = "bxor" -> (x + y) % 2
         IN r + 2 * BitOp(op, a \div 2, b \div 2, bits - 1)

IsNaN(v) == v[1] = "nan"

\* icmp with an IntCC condition code, on bit patterns of the given width.
icmp(cc, a, b, bits) ==
    CASE cc = "Equal" -> a = b
      [] cc = "NotEqual" -> a # b
      [] cc = "SignedLessThan" -> ToSigned(a, bits) < ToSigned(b, bits)
      [] cc = "SignedLessThanOrEqual" -> ToSigned(a, bits) <= ToSigned(b, bits)
      [] cc = "SignedGreaterThan" -> ToSigned(a, bits) > ToSigned(b, bits)
      [] cc = "SignedGreaterThanOrEqual" -> ToSigned(a, bits) >= ToSigned(b, bits)
      [] cc = "UnsignedLessThan" -> a < b
      [] cc = "UnsignedLessThanOrEqual" -> a <= b
      [] cc = "UnsignedGreaterThan" -> a > b
      [] cc = "UnsignedGreaterThanOrEqual" -> a >= b

\* fcmp with a FloatCC condition code: an ordered comparison is false when an
\* operand is NaN, NotEqual is true.
fcmp(cc, a, b) ==
    IF IsNaN(a) \/ IsNaN(b) THEN cc = "NotEqual"
    ELSE CASE cc = "Equal" -> a[2] = b[2]
           [] cc = "NotEqual" -> a[2] # b[2]
           [] cc = "LessThan" -> a[2] < b[2]
           [] cc = "LessThanOrEqual" -> a[2] <= b[2]
           [] cc = "GreaterThan" -> a[2] > b[2]
           [] cc = "GreaterThanOrEqual" -> a[2] >= b[2]

\* ------------------------------------------------------------------ reductions

\* The operands of every combinator exchanged.
ReduceCombineReversed(stem, kind, a, b) ==
    CASE stem \in ReduceAddNames ->
           IF kind.cls = "Float" THEN <<"fadd", b, a>> ELSE Wrap(b + a, kind.bits)
      [] stem \in ReduceMulNames ->
           IF kind.cls = "Float" THEN <<"fmul", b, a>> ELSE Wrap(b * a, kind.bits)
      [] stem = "simd_reduce_and" -> BitOp("band", b, a, kind.bits)
      [] stem = "simd_reduce_or" -> BitOp("bor", b, a, kind.bits)
      [] stem = "simd_reduce_xor" -> BitOp("bxor", b, a, kind.bits)
      [] stem = "simd_reduce_min" ->
           IF (CASE kind.cls = "Int" -> icmp("SignedLessThan", b, a, kind.bits)
                 [] kind.cls = "Uint" -> icmp("UnsignedLessThan", b, a, kind.bits)
                 [] kind.cls = "Float" -> fcmp("LessThan", b, a))
           THEN b ELSE a
      [] stem = "simd_reduce_max" ->
           IF (CASE kind.cls = "Int" -> icmp("SignedGreaterThan", b, a, kind.bits)
                 [] kind.cls = "Uint" -> icmp("UnsignedGreaterThan", b, a, kind.bits)
                 [] kind.cls = "Float" -> fcmp("GreaterThan", b, a))
           THEN b ELSE a

\* The closure each reduction arm hands to simd_reduce: the value of the
\* instructions it emits for (a, b).
ReduceCombine(stem, kind, a, b) ==
    CASE stem \in ReduceAddNames ->
           IF kind.cls = "Float" THEN <<"fadd", a, b>> ELSE Wrap(a + b, kind.bits)
      [] stem \in ReduceMulNames ->
           IF kind.cls = "Float" THEN <<"fmul", a, b>> ELSE Wrap(a * b, kind.bits)
      [] stem = "simd_reduce_and" -> BitOp("band", a, b, kind.bits)
      [] stem = "simd_reduce_or" -> BitOp("bor", a, b, kind.bits)
      [] stem = "simd_reduce_xor" -> BitOp("bxor", a, b, kind.bits)
      [] stem = "simd_reduce_min" ->
           IF (CASE kind.cls = "Int" -> icmp("SignedLessThan", a, b, kind.bits)
                 [] kind.cls = "Uint" -> icmp("UnsignedLessThan", a, b, kind.bits)
                 [] kind.cls = "Float" -> fcmp("LessThan", a, b))
           THEN a ELSE b
      [] stem = "simd_reduce_max" ->
           IF (CASE kind.cls = "Int" -> icmp("SignedGreaterThan", a, b, kind.bits)
                 [] kind.cls = "Uint" -> icmp("UnsignedGreaterThan", a, b, kind.bits)
                 [] kind.cls = "Float" -> fcmp("GreaterThan", a, b))
           THEN a ELSE b

\* if !v.layout().ty.is_simd() { report; return } at the head of an arm, which
\* then goes on to `next`.
ArmValidate(arm, next) ==
    /\ pc = arm
    /\ IF ~is_simd(call.a.ty)
       THEN /\ report_simd_type_validation_error(call.a.ty)
            /\ UNCHANGED <<prev, call, n, indexes, i, acc, ret, reads>>
       ELSE /\ pc' = next
            /\ UNCHANGED <<prev, call, n, indexes, i, acc, ret, reads, diags, traps>>

ReduceAddValidate == ArmValidate("reduce_add", "simd_reduce")
ReduceMulValidate == ArmValidate("reduce_mul", "simd_reduce")
ReduceValidate == ArmValidate("reduce", "simd_reduce")
ReduceBoolValidate == ArmValidate("reduce_bool", "simd_reduce_bool")

\* Whether the arm passes Some(acc) to simd_reduce.
Seeded(name) == name.stem \in ReduceAddNames \cup ReduceMulNames

\* simd_reduce, up to its loop: the result type is the lane type; the fold
\* starts from the seed at lane 0, or from lane 0 at lane 1.
ReduceStart ==
    /\ pc = "simd_reduce"
    /\ UNCHANGED <<prev, call, indexes, ret, traps>>
    /\ IF call.ret # ScalarTy(call.a.ty.kind)
       THEN Panic("assert_eq layout", <<call.a.ty.kind, call.ret>>)
            /\ UNCHANGED <<n, i, acc, reads>>
       ELSE /\ n' = call.a.ty.count
            /\ pc' = "simd_reduce_loop"
            /\ UNCHANGED diags
            /\ IF Seeded(call.intrinsic)
               THEN acc' = call.b.lanes[0] /\ i' = 0 /\ UNCHANGED reads
               ELSE acc' = call.a.lanes[0] /\ i' = 1 /\ reads' = reads \cup {<<"v", 0>>}

\* simd_reduce, its loop and the write of the result.
ReduceStep ==
    /\ pc = "simd_reduce_loop"
    /\ UNCHANGED <<prev, call, n, indexes, diags, traps>>
    /\ IF i >= n
       THEN ret' = WriteLane(0, acc) /\ pc' = "returned" /\ UNCHANGED <<i, acc, reads>>
       ELSE /\ reads' = reads \cup {<<"v", i>>}
            /\ acc' = ReduceCombine(call.intrinsic.stem, call.a.ty.kind, acc, call.a.lanes[i])
            /\ i' = i + 1
            /\ UNCHANGED <<pc, ret>>

\* The truth value of a mask lane, as 0 / 1.
Truth(v) == IF v # 0 THEN 1 ELSE 0

\* |fx, a, b| band(a, b) for simd_reduce_all, bor(a, b) for simd_reduce_any
ReduceBoolCombine(stem, a, b) ==
    IF stem = "simd_reduce_all" THEN BitOp("band", a, b, 1) ELSE BitOp("bor", a, b, 1)

\* simd_reduce_bool, up to its loop.
ReduceBoolStart ==
    /\ pc = "simd_reduce_bool"
    /\ UNCHANGED <<prev, call, indexes, ret, traps>>
    /\ IF call.ret.kind.cls # "Bool"
       THEN Panic("assert is_bool", <<call.ret>>) /\ UNCHANGED <<n, i, acc, reads>>
       ELSE /\ n' = call.a.ty.count
            /\ acc' = Truth(call.a.lanes[0])
            /\ i' = 1
            /\ reads' = reads \cup {<<"v", 0>>}
            /\ pc' = "simd_reduce_bool_loop"
            /\ UNCHANGED diags

\* simd_reduce_bool, its loop and the write of the result.
ReduceBoolStep ==
    /\ pc = "simd_reduce_bool_loop"
    /\ UNCHANGED <<prev, call, n, indexes, diags, traps>>
    /\ IF i >= n
       THEN ret' = WriteLane(0, acc) /\ pc' = "returned" /\ UNCHANGED <<i, acc, reads>>
       ELSE /\ reads' = reads \cup {<<"v", i>>}
            /\ acc' = ReduceBoolCombine(call.intrinsic.stem, acc, Truth(call.a.lanes[i]))
            /\ i' = i + 1
            /\ UNCHANGED <<pc, ret>>

\* ------------------------------------------------------------------ lane mappers

CastValidate == ArmValidate("cast", "simd_for_each_lane")
CmpValidate == ArmValidate("cmp", "simd_pair_for_each_lane")
NegValidate == ArmValidate("neg", "simd_for_each_lane")
BinopValidate == ArmValidate("binop", "simd_pair_for_each_lane")
FminmaxValidate == ArmValidate("fminmax", "simd_pair_for_each_lane")
RoundValidate == ArmValidate("round", "simd_for_each_lane")
FunaryValidate == ArmValidate("funary", "simd_for_each_lane")
FmaValidate == ArmValidate("fma", "fma_asserts")

\* bint(ty, c): the comparison result as the integer 0 / 1.
bint(c) == IF c THEN 1 ELSE 0

\* ineg at the given width.
ineg(v, bits) == Wrap(Pow2(bits) - v, bits)

\* The condition code the comparison arm picks for (lane kind, intrinsic).
CmpCond(kind, stem) ==
    CASE stem = "simd_eq" -> "Equal"
      [] stem = "simd_ne" -> "NotEqual"
      [] stem = "simd_lt" ->
           (CASE kind.cls = "Uint" -> "UnsignedLessThan"
              [] kind.cls = "Int" -> "SignedLessThan"
              [] kind.cls = "Float" -> "LessThan")
      [] stem = "simd_le" ->
           (CASE kind.cls = "Uint" -> "UnsignedLessThanOrEqual"
              [] kind.cls = "Int" -> "SignedLessThanOrEqual"
              [] kind.cls = "Float" -> "LessThanOrEqual")
      [] stem = "simd_gt" ->
           (CASE kind.cls = "Uint" -> "UnsignedGreaterThan"
              [] kind.cls = "Int" -> "SignedGreaterThan"
              [] kind.cls = "Float" -> "GreaterThan")
      [] stem = "simd_ge" ->
           (CASE kind.cls = "Uint" -> "UnsignedGreaterThanOrEqual"
              [] kind.cls = "Int" -> "SignedGreaterThanOrEqual"
              [] kind.cls = "Float" -> "GreaterThanOrEqual")

\* The comparison result left as bint gives it.
CmpMaskNotNegated(c, bits) == bint(c)

\* let res_lane = bint(ty, res_lane); ineg(res_lane)
CmpMask(c, bits) == ineg(bint(c), bits)

\* The closure of the comparison arm.
CmpLaneValue(stem, kind, res_kind, x_lane, y_lane) ==
    CmpMask(IF kind.cls = "Float"
            THEN fcmp(CmpCond(kind, stem), x_lane, y_lane)
            ELSE icmp(CmpCond(kind, stem), x_lane, y_lane, kind.bits),
            res_kind.bits)

\* The instruction the binary arm picks for (lane kind, intrinsic);
\* "unreachable" for the pairs its match does not list.
BinopInstr(kind, stem) ==
    CASE kind.cls = "Uint" ->
           (CASE stem = "simd_add" -> "iadd" [] stem = "simd_sub" -> "isub"
              [] stem = "simd_mul" -> "imul" [] stem = "simd_div" -> "udiv"
              [] stem = "simd_rem" -> "urem" [] stem = "simd_shl" -> "ishl"
              [] stem = "simd_shr" -> "ushr" [] stem = "simd_and" -> "band"
              [] stem = "simd_or" -> "bor" [] stem = "simd_xor" -> "bxor")
      [] kind.cls = "Int" ->
           (CASE stem = "simd_add" -> "iadd" [] stem = "simd_sub" -> "isub"
              [] stem = "simd_mul" -> "imul" [] stem = "simd_div" -> "sdiv"
              [] stem = "simd_rem" -> "srem" [] stem = "simd_shl" -> "ishl"
              [] stem = "simd_shr" -> "sshr" [] stem = "simd_and" -> "band"
              [] stem = "simd_or" -> "bor" [] stem = "simd_xor" -> "bxor")
      [] kind.cls = "Float" ->
           (CASE stem = "simd_add" -> "fadd" [] stem = "simd_sub" -> "fsub"
              [] stem = "simd_mul" -> "fmul" [] stem = "simd_div" -> "fdiv"
              [] stem = "simd_rem" /\ kind.bits = 32 -> "fmodf"
              [] stem = "simd_rem" /\ kind.bits = 64 -> "fmod"
              [] OTHER -> "unreachable")
      [] OTHER -> "unreachable"

\* Whether the closure of a one-vector arm yields a value for the lane kind
\* (it is unreachable!() otherwise).
UnaryDefined(arm, kind) ==
    CASE arm = "cast" -> TRUE
      [] arm = "neg" -> kind.cls \in {"Int", "Float"}
      [] arm = "round" -> kind.cls = "Float" /\ kind.bits \in {32, 64}
      [] arm = "funary" -> kind.cls = "Float"

\* The value of the instructions the closure of a one-vector arm emits.
UnaryLaneValue(arm, stem, kind, ret_kind, lane) ==
    CASE arm = "cast" ->
           <<"clif_int_or_float_cast", kind.cls = "Int", ret_kind, ret_kind.cls = "Int", lane>>
      [] arm = "neg" -> IF kind.cls = "Int" THEN ineg(lane, kind.bits) ELSE <<"fneg", lane>>
      [] arm = "round" -> <<(IF kind.bits = 32 THEN "roundf" ELSE "round"), lane>>
      [] arm = "funary" ->
           <<(CASE stem = "simd_fabs" -> "fabs" [] stem = "simd_fsqrt" -> "sqrt"
                [] stem = "simd_ceil" -> "ceil" [] stem = "simd_floor" -> "floor"
                [] stem = "simd_trunc" -> "trunc"), lane>>

\* Whether the closure of a two-vector arm yields a value for the lane kind.
PairDefined(arm, stem, kind) ==
    CASE arm = "cmp" -> kind.cls \in {"Uint", "Int", "Float"}
      [] arm = "binop" -> BinopInstr(kind, stem) # "unreachable"
      [] arm = "fminmax" -> kind.cls = "Float"

\* The value of the instructions the closure of a two-vector arm emits.
PairLaneValue(arm, stem, kind, ret_kind, x_lane, y_lane) ==
    CASE arm = "cmp" -> CmpLaneValue(stem, kind, ret_kind, x_lane, y_lane)
      [] arm = "binop" -> <<BinopInstr(kind, stem), x_lane, y_lane>>
      [] arm = "fminmax" ->
           <<(IF stem = "simd_fmin" THEN "fmin" ELSE "fmax"), x_lane, y_lane>>

\* simd_for_each_lane, up to its loop: the destination has the lane count of
\* the input.
ForEachStart ==
    /\ pc = "simd_for_each_lane"
    /\ UNCHANGED <<prev, call, indexes, acc, ret, reads, traps>>
    /\ IF call.a.ty.count # call.ret.count
       THEN Panic("assert_eq lane_count", <<call.a.ty.count, call.ret.count>>)
            /\ UNCHANGED <<n, i>>
       ELSE n' = call.a.ty.count /\ i' = 0 /\ pc' = "simd_for_each_lane_loop"
            /\ UNCHANGED diags

\* simd_for_each_lane, its loop: lane i is read, the closure applied and the
\* result written to lane i of the destination.
ForEachLane ==
    /\ pc = "simd_for_each_lane_loop"
    /\ UNCHANGED <<prev, call, n, indexes, acc, traps>>
    /\ IF i >= n
       THEN pc' = "returned" /\ UNCHANGED <<i, ret, reads, diags>>
       ELSE IF ~UnaryDefined(Family(call.intrinsic), call.a.ty.kind)
       THEN /\ reads' = reads \cup {<<"a", i>>}
            /\ Panic("unreachable", <<call.a.ty.kind>>)
            /\ UNCHANGED <<i, ret>>
       ELSE /\ reads' = reads \cup {<<"a", i>>}
            /\ ret' = WriteLane(i, UnaryLaneValue(Family(call.intrinsic), call.intrinsic.stem,
                                                  call.a.ty.kind, call.ret.kind, call.a.lanes[i]))
            /\ i' = i + 1
            /\ UNCHANGED <<pc, diags>>

\* simd_pair_for_each_lane, up to its loop: x and y have one layout and the
\* destination their lane count.
PairStart ==
    /\ pc = "simd_pair_for_each_lane"
    /\ UNCHANGED <<prev, call, indexes, acc, ret, reads, traps>>
    /\ IF call.a.ty # call.b.ty
       THEN Panic("assert_eq layout", <<call.a.ty, call.b.ty>>) /\ UNCHANGED <<n, i>>
       ELSE IF call.a.ty.count # call.ret.count
       THEN Panic("assert_eq lane_count", <<call.a.ty.count, call.ret.count>>)
            /\ UNCHANGED <<n, i>>
       ELSE n' = call.a.ty.count /\ i' = 0 /\ pc' = "simd_pair_for_each_lane_loop"
            /\ UNCHANGED diags

\* simd_pair_for_each_lane, its loop.
PairLane ==
    /\ pc = "simd_pair_for_each_lane_loop"
    /\ UNCHANGED <<prev, call, n, indexes, acc, traps>>
    /\ IF i >= n
       THEN pc' = "returned" /\ UNCHANGED <<i, ret, reads, diags>>
       ELSE IF ~PairDefined(Family(call.intrinsic), call.intrinsic.stem, call.a.ty.kind)
       THEN /\ reads' = reads \cup {<<"x", i>>, <<"y", i>>}
            /\ Panic("unreachable", <<call.a.ty.kind>>)
            /\ UNCHANGED <<i, ret>>
       ELSE /\ reads' = reads \cup {<<"x", i>>, <<"y", i>>}
            /\ ret' = WriteLane(i, PairLaneValue(Family(call.intrinsic), call.intrinsic.stem,
                                                 call.a.ty.kind, call.ret.kind,
                                                 call.a.lanes[i], call.b.lanes[i]))
            /\ i' = i + 1
            /\ UNCHANGED <<pc, diags>>

\* FmaAsserts without assert_eq!(a.layout(), c.layout()).
FmaAssertsWithoutC ==
    /\ pc = "fma_asserts"
    /\ UNCHANGED <<prev, call, indexes, acc, ret, reads, traps>>
    /\ IF call.a.ty # call.b.ty
       THEN Panic("assert_eq layout", <<call.a.ty, call.b.ty>>) /\ UNCHANGED <<n, i>>
       ELSE IF call.a.ty.count # call.ret.count
       THEN Panic("assert_eq lane_count", <<call.a.ty.count, call.ret.count>>)
            /\ UNCHANGED <<n, i>>
       ELSE n' = call.a.ty.count /\ i' = 0 /\ pc' = "fma_lanes" /\ UNCHANGED diags

\* assert_eq!(a.layout(), b.layout()); assert_eq!(a.layout(), c.layout());
\* assert_eq!(lane_count, ret_lane_count);
FmaAsserts ==
    /\ pc = "fma_asserts"
    /\ UNCHANGED <<prev, call, indexes, acc, ret, reads, traps>>
    /\ IF call.a.ty # call.b.ty
       THEN Panic("assert_eq layout", <<call.a.ty, call.b.ty>>) /\ UNCHANGED <<n, i>>
       ELSE IF call.a.ty # call.c.ty
       THEN Panic("assert_eq layout", <<call.a.ty, call.c.ty>>) /\ UNCHANGED <<n, i>>
       ELSE IF call.a.ty.count # call.ret.count
       THEN Panic("assert_eq lane_count", <<call.a.ty.count, call.ret.count>>)
            /\ UNCHANGED <<n, i>>
       ELSE n' = call.a.ty.count /\ i' = 0 /\ pc' = "fma_lanes" /\ UNCHANGED diags

\* for lane in 0..lane_count { fmul(a_lane, b_lane); fadd(mul_lane, c_lane) }
FmaLane ==
    /\ pc = "fma_lanes"
    /\ UNCHANGED <<prev, call, n, indexes, acc, diags, traps>>
    /\ IF i >= n
       THEN pc' = "returned" /\ UNCHANGED <<i, ret, reads>>
       ELSE /\ reads' = reads \cup {<<"a", i>>, <<"b", i>>, <<"c", i>>}
            /\ ret' = WriteLane(i, <<"fadd", <<"fmul", call.a.lanes[i], call.b.lanes[i]>>,
                                     call.c.lanes[i]>>)
            /\ i' = i + 1
            /\ UNCHANGED pc

\* ------------------------------------------------------------------ calls

NoOperand == ScalarOperand(UintKind(8), 0)

Call(name, a, b, c, idx, retTy) ==
    [intrinsic |-> name, a |-> a, b |-> b, c |-> c, idx |-> idx, ret |-> retTy]

DigitChar(d) == <<"0", "1", "2", "3", "4", "5", "6", "7", "8", "9">>[d + 1]

\* The two forms of the shuffle intrinsic with output length k (k <= 9).
ShuffleNames(k) == {Sym("simd_shuffle"), ShuffleName(<<DigitChar(k)>>)}

U8 == UintKind(8)

ShuffleCall(name, x, y, vals, k) ==
    Call(name, x, y, NoOperand, IdxArray(TRUE, vals), SimdTy(k, U8))

\* Index values beyond the valid range 0 .. 2*L-1, up to the largest u32.
BadIndexes(L) == {2 * L, 2 * L + 1, U16Max, U16Max + 1, BigU32}

\* Well-formed shuffles: every pair of input vectors, every index list in range.
ShuffleCallsInRange ==
    UNION {UNION {{ShuffleCall(nm, SimdOperand(U8, x), SimdOperand(U8, y), vals, k) :
                      nm \in ShuffleNames(k),
                      x \in VecsOver(L, {1, 2}), y \in VecsOver(L, {2, 3}),
                      vals \in [1 .. k -> 0 .. 2 * L - 1]} :
                  k \in 1 .. MaxLanes} :
           L \in 1 .. MaxLanes}

\* Index lists that hold values out of range, on fixed inputs.
ShuffleCallsOutOfRange ==
    UNION {UNION {{ShuffleCall(ShuffleName(<<DigitChar(k)>>),
                               SimdOperand(U8, [j \in 0 .. L - 1 |-> j + 1]),
                               SimdOperand(U8, [j \in 0 .. L - 1 |-> L + j + 1]), vals, k) :
                      vals \in [1 .. k -> {0, 2 * L - 1} \cup BadIndexes(L)]} :
                  k \in 1 .. MaxLanes} :
           L \in 1 .. MaxLanes}

X4 == SimdOperand(U8, Vec(<<1, 2, 3, 4>>))
Y4 == SimdOperand(U8, Vec(<<5, 6, 7, 8>>))

\* The documented example and the calls that leave the handler early.
ShuffleCallsSpecial ==
    {ShuffleCall(Sym("simd_shuffle"), X4, Y4, <<0, 4, 3, 7>>, 4),
     ShuffleCall(ShuffleName(<<"4">>), X4, Y4, <<0, 8, 3, 7>>, 4),
     \* x is not a SIMD type
     ShuffleCall(ShuffleName(<<"2">>), ScalarOperand(U8, 1), ScalarOperand(U8, 2), <<0, 1>>, 2),
     \* y differs from x in lane count, in lane kind
     ShuffleCall(ShuffleName(<<"2">>), X4, SimdOperand(U8, Vec(<<5, 6>>)), <<0, 1>>, 2),
     ShuffleCall(ShuffleName(<<"2">>), X4, SimdOperand(IntKind(8), Vec(<<5, 6, 7, 8>>)), <<0, 1>>, 2),
     \* the destination differs in lane kind, in lane count
     Call(ShuffleName(<<"2">>), X4, Y4, NoOperand, IdxArray(TRUE, <<0, 1>>), SimdTy(2, IntKind(8))),
     ShuffleCall(ShuffleName(<<"2">>), X4, Y4, <<0, 1>>, 4),
     \* the index operand is no constant, no array, too short, no array of u32
     Call(ShuffleName(<<"2">>), X4, Y4, NoOperand, IdxArray(FALSE, <<0, 1>>), SimdTy(2, U8)),
     Call(Sym("simd_shuffle"), X4, Y4, NoOperand, IdxArray(FALSE, <<0, 1>>), SimdTy(2, U8)),
     Call(ShuffleName(<<"1">>), X4, Y4, NoOperand, IdxScalar(TRUE, 0), SimdTy(1, U8)),
     Call(Sym("simd_shuffle"), X4, Y4, NoOperand, IdxScalar(TRUE, 0), SimdTy(1, U8)),
     ShuffleCall(ShuffleName(<<"4">>), X4, Y4, <<0, 1>>, 4),
     Call(Sym("simd_shuffle"), X4, Y4, NoOperand,
          [IdxArray(TRUE, <<0, 1>>) EXCEPT !.elem = "u64"], SimdTy(2, U8)),
     \* names with the prefix and no valid u16 suffix
     ShuffleCall(ShuffleName(<<"_", "x">>), X4, Y4, <<0, 1>>, 2),
     ShuffleCall(ShuffleName(<<"+">>), X4, Y4, <<0, 1>>, 2),
     ShuffleCall(ShuffleName(<<"+", "2">>), X4, Y4, <<0, 1>>, 2),
     ShuffleCall(ShuffleName(<<"6", "5", "5", "3", "6">>), X4, Y4, <<0, 1>>, 2),
     ShuffleCall(ShuffleName(<<"0", "2">>), X4, Y4, <<0, 5>>, 2)}

ShuffleCalls == ShuffleCallsInRange \cup ShuffleCallsOutOfRange \cup ShuffleCallsSpecial

InitShuffle == \E c \in ShuffleCalls : InitCall(c)

NextShuffle ==
    \/ Dispatch
    \/ ShuffleValidate
    \/ ShuffleN
    \/ ShuffleAsserts
    \/ ShuffleIndexes
    \/ ShuffleCheck
    \/ ShuffleLane

SpecShuffle == InitShuffle /\ [][NextShuffle]_vars

\* ------------------------------------------------------------------ insert / extract calls

F32 == FloatKind(32)
F(v) == <<"f", v>>
NaN == <<"nan">>

\* The index operands tried on a vector of L lanes: every constant u32 up to
\* L + 1, a large one, and an operand that is no constant.
LaneIndexes(L) ==
    {IdxScalar(TRUE, v) : v \in (0 .. L + 1) \cup {BigU32}} \cup {IdxScalar(FALSE, 0)}

U8Vectors == UNION {{SimdOperand(U8, x) : x \in VecsOver(L, {1, 2})} : L \in 1 .. MaxLanes}

F32Vector == SimdOperand(F32, Vec(<<F(1), NaN>>))

InsertCall(base, idx, val) == Call(Sym("simd_insert"), base, val, NoOperand, idx, base.ty)

ExtractCall(v, idx) == Call(Sym("simd_extract"), v, NoOperand, NoOperand, idx, ScalarTy(v.ty.kind))

InsertCalls ==
    {InsertCall(base, idx, val) :
        base \in U8Vectors, idx \in LaneIndexes(MaxLanes),
        val \in {ScalarOperand(U8, 2), ScalarOperand(U8, 9)}}
    \cup {InsertCall(F32Vector, idx, ScalarOperand(F32, F(2))) : idx \in LaneIndexes(2)}
    \* base is not a SIMD type; the index is no scalar
    \cup {InsertCall(ScalarOperand(U8, 1), idx, ScalarOperand(U8, 9)) : idx \in LaneIndexes(1)}
    \cup {InsertCall(SimdOperand(U8, Vec(<<1, 2>>)), IdxArray(TRUE, <<0>>), ScalarOperand(U8, 9))}

ExtractCalls ==
    {ExtractCall(v, idx) : v \in U8Vectors \cup {F32Vector}, idx \in LaneIndexes(MaxLanes)}
    \* v is not a SIMD type; the index is no scalar
    \cup {ExtractCall(ScalarOperand(U8, 1), idx) : idx \in LaneIndexes(1)}
    \cup {ExtractCall(SimdOperand(U8, Vec(<<1, 2>>)), IdxArray(TRUE, <<0>>))}

InitAccess == \E c \in InsertCalls \cup ExtractCalls : InitCall(c)

NextAccess ==
    \/ Dispatch
    \/ InsertConst
    \/ InsertBits
    \/ InsertCopy
    \/ InsertLane
    \/ ExtractValidate
    \/ ExtractConst
    \/ ExtractBits
    \/ ExtractLane
    \/ ExtractOfInsert

SpecAccess == InitAccess /\ [][NextAccess]_vars

\* ------------------------------------------------------------------ select calls

I8 == IntKind(8)

SelectCall(m, a, b) == Call(Sym("simd_select"), m, a, b, NoIdx, a.ty)

SelectCallsWellFormed ==
    UNION {{SelectCall(SimdOperand(I8, m), SimdOperand(U8, a), SimdOperand(U8, b)) :
               m \in VecsOver(L, {0, 1, 255}), a \in VecsOver(L, {10, 20}),
               b \in VecsOver(L, {1, 20})} :
           L \in 1 .. MaxLanes}

M3 == SimdOperand(I8, Vec(<<1, 0, 1>>))
A3 == SimdOperand(U8, Vec(<<10, 20, 30>>))
B3 == SimdOperand(U8, Vec(<<1, 2, 3>>))

SelectCallsSpecial ==
    {SelectCall(M3, A3, B3),
     \* float values under an integer mask
     SelectCall(SimdOperand(I8, Vec(<<0, 128>>)), F32Vector, SimdOperand(F32, Vec(<<F(0), F(2)>>))),
     \* m, a, or both are not SIMD types
     SelectCall(ScalarOperand(I8, 1), A3, B3),
     SelectCall(M3, ScalarOperand(U8, 1), ScalarOperand(U8, 2)),
     SelectCall(ScalarOperand(I8, 1), ScalarOperand(U8, 1), ScalarOperand(U8, 2)),
     \* b differs from a; m has fewer, more lanes than a
     SelectCall(M3, A3, SimdOperand(U8, Vec(<<1, 2>>))),
     SelectCall(M3, A3, ScalarOperand(U8, 1)),
     SelectCall(SimdOperand(I8, Vec(<<1, 0>>)), A3, B3),
     SelectCall(SimdOperand(I8, Vec(<<1, 0, 1, 0>>)), A3, B3)}

SelectCalls == SelectCallsWellFormed \cup SelectCallsSpecial

InitSelect == \E c \in SelectCalls : InitCall(c)

NextSelect ==
    \/ Dispatch
    \/ SelectValidateM
    \/ SelectValidateA
    \/ SelectAssert
    \/ SelectLane

SpecSelect == InitSelect /\ [][NextSelect]_vars

\* ------------------------------------------------------------------ reduction calls

BoolKind == [cls |-> "Bool", bits |-> 8]

\* simd_reduce_*(v) or simd_reduce_*(v, acc), the result of the lane type.
ReduceCall(stem, v, seed) == Call(Sym(stem), v, seed, NoOperand, NoIdx, ScalarTy(v.ty.kind))

IntVectors(k) == UNION {{SimdOperand(k, x) : x \in VecsOver(L, {1, 3, 255})} : L \in 1 .. MaxLanes}

F32Vectors == UNION {{SimdOperand(F32, x) : x \in VecsOver(L, {F(1), F(2), NaN})} : L \in 1 .. MaxLanes}

ReduceCallsInt ==
    UNION {{ReduceCall(stem, v, ScalarOperand(k, seed)) :
               stem \in ReduceAddNames \cup ReduceMulNames, v \in IntVectors(k), seed \in {0, 254}}
           \cup {ReduceCall(stem, v, NoOperand) : stem \in ReduceNoSeedNames, v \in IntVectors(k)} :
           k \in {U8, I8}}

ReduceCallsFloat ==
    {ReduceCall(stem, v, ScalarOperand(F32, seed)) :
        stem \in ReduceAddNames \cup ReduceMulNames, v \in F32Vectors, seed \in {F(0), NaN}}
    \cup {ReduceCall(stem, v, NoOperand) :
            stem \in {"simd_reduce_min", "simd_reduce_max"}, v \in F32Vectors}

ReduceCallsSpecial ==
    \* v is not a SIMD type; the result type is not the lane type
    {ReduceCall(stem, ScalarOperand(U8, 1), ScalarOperand(U8, 0)) :
        stem \in ReduceAddNames \cup ReduceMulNames \cup ReduceNoSeedNames}
    \cup {Call(Sym(stem), A3, ScalarOperand(U8, 0), NoOperand, NoIdx, ScalarTy(UintKind(16))) :
            stem \in {"simd_reduce_add_ordered", "simd_reduce_or"}}

ReduceCalls == ReduceCallsInt \cup ReduceCallsFloat \cup ReduceCallsSpecial

InitReduce == \E c \in ReduceCalls : InitCall(c)

NextReduce ==
    \/ Dispatch
    \/ ReduceAddValidate
    \/ ReduceMulValidate
    \/ ReduceValidate
    \/ ReduceStart
    \/ ReduceStep

SpecReduce == InitReduce /\ [][NextReduce]_vars

\* ------------------------------------------------------------------ comparison calls

I16 == IntKind(16)

CmpCall(stem, x, y, res_kind) ==
    Call(Sym(stem), x, y, NoOperand, NoIdx, SimdTy(x.ty.count, res_kind))

\* 1, 128 and 255 order differently as signed and as unsigned 8-bit lanes.
CmpCallsInt ==
    UNION {UNION {{CmpCall(stem, SimdOperand(k, x), SimdOperand(k, y), k) :
                      stem \in CmpNames,
                      x \in VecsOver(L, {1, 128, 255}), y \in VecsOver(L, {1, 128, 255})} :
                  L \in 1 .. MaxLanes} :
           k \in {U8, I8}}

\* Float lanes, and integer lanes with a wider result lane.
CmpCallsOther ==
    {CmpCall(stem, SimdOperand(F32, Vec(<<x>>)), SimdOperand(F32, Vec(<<y>>)), I16) :
        stem \in CmpNames, x \in {F(1), F(2), NaN}, y \in {F(1), F(2), NaN}}
    \cup {CmpCall(stem, SimdOperand(k, Vec(<<128, 1>>)), SimdOperand(k, Vec(<<1, 1>>)), I16) :
            stem \in CmpNames, k \in {U8, I8}}

CmpCallsSpecial ==
    \* x is not a SIMD type; y differs from x; the destination differs in lane count
    {CmpCall("simd_eq", ScalarOperand(U8, 1), ScalarOperand(U8, 1), U8),
     CmpCall("simd_lt", A3, SimdOperand(U8, Vec(<<1, 2>>)), U8),
     CmpCall("simd_lt", A3, SimdOperand(I8, Vec(<<1, 2, 3>>)), U8),
     Call(Sym("simd_ne"), A3, B3, NoOperand, NoIdx, SimdTy(2, U8))}

CmpCalls == CmpCallsInt \cup CmpCallsOther \cup CmpCallsSpecial

InitCmp == \E c \in CmpCalls : InitCall(c)

NextCmp ==
    \/ Dispatch
    \/ CmpValidate
    \/ PairStart
    \/ PairLane

SpecCmp == InitCmp /\ [][NextCmp]_vars

\* ------------------------------------------------------------------ every intrinsic

I8Vector == SimdOperand(I8, Vec(<<1, 255>>))
U8Vector == SimdOperand(U8, Vec(<<1, 255>>))
F64Vector == SimdOperand(FloatKind(64), Vec(<<F(1), F(2)>>))

\* op(a) with a destination of a's lane count and the given lane kind.
UnaryCall(stem, a, ret_kind) ==
    Call(Sym(stem), a, NoOperand, NoOperand, NoIdx, SimdTy(a.ty.count, ret_kind))

\* op(x, y) with a destination of x's type.
BinaryCall(stem, x, y) == Call(Sym(stem), x, y, NoOperand, NoIdx, x.ty)

FmaCall(a, b, c) == Call(Sym("simd_fma"), a, b, c, NoIdx, a.ty)

UnaryNames == {"simd_cast", "simd_neg", "simd_round"} \cup FunaryNames

MapperCalls ==
    {UnaryCall(stem, v, v.ty.kind) :
        stem \in UnaryNames, v \in {F32Vector, F64Vector, I8Vector, U8Vector, ScalarOperand(U8, 1)}}
    \cup {UnaryCall("simd_cast", v, k) : v \in {F32Vector, I8Vector, U8Vector}, k \in {F32, I16}}
    \cup {UnaryCall("simd_neg", A3, U8), Call(Sym("simd_neg"), I8Vector, NoOperand, NoOperand,
                                              NoIdx, SimdTy(3, I8))}
    \cup {BinaryCall(stem, v, v) :
            stem \in BinopNames \cup FminmaxNames,
            v \in {F32Vector, F64Vector, I8Vector, U8Vector, ScalarOperand(U8, 1)}}
    \cup {BinaryCall("simd_add", A3, U8Vector), BinaryCall("simd_fmin", F32Vector, F64Vector)}

FmaCalls ==
    {FmaCall(a, b, c) : a \in {F32Vector, F64Vector}, b \in {F32Vector, F64Vector},
                        c \in {F32Vector, F64Vector}}
    \cup {FmaCall(ScalarOperand(F32, F(1)), F32Vector, F32Vector),
          FmaCall(F32Vector, ScalarOperand(F32, F(1)), F32Vector),
          \* b, c differ from a in lane count only
          FmaCall(F32Vector, SimdOperand(F32, Vec(<<F(1)>>)), F32Vector),
          FmaCall(F32Vector, F32Vector, SimdOperand(F32, Vec(<<F(1), F(2), NaN>>))),
          Call(Sym("simd_fma"), F32Vector, F32Vector, F32Vector, NoIdx, SimdTy(3, F32))}

ReduceBoolCalls ==
    {Call(Sym(stem), v, NoOperand, NoOperand, NoIdx, ScalarTy(k)) :
        stem \in ReduceBoolNames,
        v \in {I8Vector, M3, SimdOperand(I8, Vec(<<0, 0, 1>>)), SimdOperand(I8, Vec(<<0, 0>>)),
               ScalarOperand(I8, 1)},
        k \in {BoolKind, I8}}

\* Names no arm matches: the operations named and not implemented, and others.
UnknownNames ==
    {Sym("simd_bitmask"), Sym("simd_gather"), Sym("simd_scatter"),
     Sym("simd_saturating_add"), Sym("simd_saturating_sub"), Sym("simd_select_bitmask"),
     Sym("simd"), Sym(""), [stem |-> "simd_cast", suffix |-> <<"2">>],
     [stem |-> "simd_insert", suffix |-> <<"_", "x">>]}

UnknownCalls ==
    {Call(nm, a, a, a, IdxScalar(TRUE, 0), a.ty) :
        nm \in UnknownNames, a \in {U8Vector, ScalarOperand(U8, 1)}}

AllCalls ==
    MapperCalls \cup FmaCalls \cup ReduceBoolCalls \cup UnknownCalls
    \cup ShuffleCallsSpecial \cup InsertCalls \cup ExtractCalls \cup SelectCallsSpecial
    \cup CmpCallsOther \cup CmpCallsSpecial \cup ReduceCallsFloat \cup ReduceCallsSpecial

Init == \E c \in AllCalls : InitCall(c)

Next ==
    \/ Dispatch
    \/ CastValidate
    \/ CmpValidate
    \/ ShuffleValidate
    \/ ShuffleN
    \/ ShuffleAsserts
    \/ ShuffleIndexes
    \/ ShuffleCheck
    \/ ShuffleLane
    \/ InsertConst
    \/ InsertBits
    \/ InsertCopy
    \/ InsertLane
    \/ ExtractValidate
    \/ ExtractConst
    \/ ExtractBits
    \/ ExtractLane
    \/ ExtractOfInsert
    \/ NegValidate
    \/ BinopValidate
    \/ FmaValidate
    \/ FmaAsserts
    \/ FmaLane
    \/ FminmaxValidate
    \/ RoundValidate
    \/ FunaryValidate
    \/ ForEachStart
    \/ ForEachLane
    \/ PairStart
    \/ PairLane
    \/ ReduceAddValidate
    \/ ReduceMulValidate
    \/ ReduceBoolValidate
    \/ ReduceValidate
    \/ ReduceStart
    \/ ReduceStep
    \/ ReduceBoolStart
    \/ ReduceBoolStep
    \/ SelectValidateM
    \/ SelectValidateA
    \/ SelectAssert
    \/ SelectLane

Spec == Init /\ [][Next]_vars

\* The lowering runs to completion: the handler is one synchronous call with
\* no lock, no await and no cancellation, so a statement that can run does.
SpecLive == Init /\ [][Next]_vars /\ WF_vars(Next)

\* ------------------------------------------------------------------ C1, C2

\* A shuffle whose operands have the shapes the handler asserts: x and y of
\* one vector type, a constant [u32; k] index array, a destination of k
\* lanes of the inputs' lane kind, and a name that is `simd_shuffle` or
\* carries the suffix k.
ShuffleWellFormed ==
    /\ Family(call.intrinsic) = "shuffle"
    /\ is_simd(call.a.ty)
    /\ call.a.ty = call.b.ty
    /\ call.idx.konst /\ call.idx.shape = "array" /\ call.idx.elem = "u32"
    /\ call.ret = SimdTy(call.idx.len, call.a.ty.kind)
    /\ \/ call.intrinsic = Sym("simd_shuffle")
       \/ ParseU16(call.intrinsic.suffix) = call.idx.len

ShuffleAllInRange == \A j \in 1 .. call.idx.len : call.idx.vals[j] < 2 * call.a.ty.count

ShuffleExpected(j) ==
    IF call.idx.vals[j + 1] < call.a.ty.count
    THEN call.a.lanes[call.idx.vals[j + 1]]
    ELSE call.b.lanes[call.idx.vals[j + 1] - call.a.ty.count]

\* C1: a shuffle of two vectors of lane count L under a constant index list
\* of length n with every index < 2*L returns with exactly the n lanes
\* 0 .. n-1 written, lane i holding x[indices[i]] when indices[i] < L and
\* y[indices[i] - L] otherwise; no lane ever holds another value.
C1_ShuffleGathers ==
    (ShuffleWellFormed /\ ShuffleAllInRange) =>
        /\ \A j \in DOMAIN ret : ret[j] = ShuffleExpected(j)
        /\ pc \in Terminal =>
              /\ pc = "returned"
              /\ DOMAIN ret = 0 .. call.idx.len - 1
              /\ diags = <<>>

\* The documented example: x=[1,2,3,4], y=[5,6,7,8], indices [0,4,3,7].
C1_Witness ==
    /\ pc = "returned"
    /\ ShuffleWellFormed /\ ShuffleAllInRange
    /\ call.a = X4 /\ call.b = Y4 /\ call.idx.vals = <<0, 4, 3, 7>>
    /\ ret = Vec(<<1, 5, 4, 8>>)

ShuffleSomeOutOfRange == \E j \in 1 .. call.idx.len : call.idx.vals[j] >= 2 * call.a.ty.count

\* C2: a shuffle whose index list holds a value >= 2*L, whatever u32 value
\* it is, ends fatally with a message that cites an offending index and the
\* bound 2*L, with no lane of the destination written.
C2_BadIndexCited ==
    (ShuffleWellFormed /\ ShuffleSomeOutOfRange /\ pc \in Terminal) =>
        /\ pc \in {"fatal", "panic"}
        /\ ret = NoLanes
        /\ diags[Len(diags)].kind = "idx out of range"
        /\ \E j \in 1 .. call.idx.len :
              /\ call.idx.vals[j] >= 2 * call.a.ty.count
              /\ diags[Len(diags)].args = <<call.idx.vals[j], 2 * call.a.ty.count>>

\* What holds of every out-of-range index list: the call ends in a panic
\* before any lane is read or written.
C2_BadIndexRejected ==
    (ShuffleWellFormed /\ ShuffleSomeOutOfRange) =>
        /\ ret = NoLanes /\ reads = {}
        /\ pc \in Terminal => pc = "panic"

\* ------------------------------------------------------------------ C3, C5, C10

IsInsert == Family(call.intrinsic) = "insert"
IsExtract == Family(call.intrinsic) = "extract"

\* The index operand is a constant u32.
ConstIndex == call.idx.konst /\ try_to_bits(call.idx) >= 0

\* C3: simd_insert(base, i, val) on a vector base of L lanes with constant
\* i < L returns with the destination holding val at lane i and base[j] at
\* every other lane j; simd_extract of that destination at the same index
\* returns val.
C3_InsertExtract ==
    /\ (IsInsert /\ is_simd(call.a.ty) /\ ConstIndex
            /\ try_to_bits(call.idx) < call.a.ty.count /\ pc \in Terminal) =>
          /\ pc = "returned"
          /\ DOMAIN ret = 0 .. call.a.ty.count - 1
          /\ \A j \in DOMAIN ret :
                ret[j] = IF j = try_to_bits(call.idx) THEN call.b.lanes[0] ELSE call.a.lanes[j]
    /\ (prev # <<>> /\ is_simd(prev[1].a.ty) /\ pc \in Terminal) =>
          /\ pc = "returned"
          /\ IsExtract /\ call.idx = prev[1].idx
          /\ ret = (0 :> prev[1].b.lanes[0])

\* An extract has returned the value an insert put over a different one.
C3_Witness ==
    /\ prev # <<>> /\ is_simd(prev[1].a.ty)
    /\ pc = "returned" /\ IsExtract
    /\ prev[1].a.ty.count >= 2
    /\ prev[1].a.lanes[try_to_bits(call.idx)] # prev[1].b.lanes[0]
    /\ ret = (0 :> prev[1].b.lanes[0])

\* C5: simd_extract on a vector operand whose index is no constant returns
\* normally with exactly one diagnostic, a warning, one trap emitted, the
\* placeholder value of the destination's type written and no lane read; on
\* an operand that is no vector it takes the type error path (one error, a
\* trap, nothing written), whether or not the index is a constant.
C5_ExtractNotConst ==
    /\ (IsExtract /\ is_simd(call.a.ty) /\ ~call.idx.konst /\ pc \in Terminal) =>
          /\ pc = "returned"
          /\ Len(diags) = 1 /\ diags[1].sev = "warning"
          /\ traps = 1
          /\ ret = (0 :> trap_unimplemented_ret_value(call.ret))
          /\ reads = {}
    /\ (IsExtract /\ ~is_simd(call.a.ty) /\ pc \in Terminal) =>
          /\ pc = "returned"
          /\ Len(diags) = 1 /\ diags[1].sev = "error"
          /\ diags[1].kind = "invalid monomorphization"
          /\ traps = 1
          /\ ret = NoLanes /\ reads = {}

C5_Witness ==
    /\ IsExtract /\ is_simd(call.a.ty) /\ ~call.idx.konst
    /\ pc = "returned" /\ Len(diags) = 1 /\ DOMAIN ret = {0}

\* C10: for simd_insert and simd_extract on a vector of L lanes with a
\* constant index idx, idx >= L ends in a fatal error with nothing written to
\* the destination and no lane read, and in every state in which a lane has
\* been read or the destination written idx < L holds.
C10_IndexCheckedFirst ==
    ((IsInsert \/ IsExtract) /\ is_simd(call.a.ty) /\ ConstIndex) =>
        /\ try_to_bits(call.idx) >= call.a.ty.count =>
              /\ ret = NoLanes /\ reads = {}
              /\ pc \in Terminal =>
                    /\ pc = "fatal"
                    /\ diags[Len(diags)].args = <<try_to_bits(call.idx), call.a.ty.count>>
        /\ (ret # NoLanes \/ reads # {}) => try_to_bits(call.idx) < call.a.ty.count

\* An insert has been refused for idx = L, before base was copied.
C10_Witness ==
    /\ IsInsert /\ is_simd(call.a.ty) /\ ConstIndex
    /\ try_to_bits(call.idx) = call.a.ty.count
    /\ pc = "fatal" /\ ret = NoLanes

\* ------------------------------------------------------------------ C4

IsSelect == Family(call.intrinsic) = "select"

\* m, a and b are vectors of one lane count, a and b of one type.
SelectWellFormed ==
    /\ IsSelect
    /\ is_simd(call.a.ty) /\ is_simd(call.b.ty)
    /\ call.b.ty = call.c.ty
    /\ call.a.ty.count = call.b.ty.count

\* C4: simd_select over a mask m and vectors a, b of one lane count L returns
\* with every lane i in 0..L written, lane i holding a[i] if m[i] is nonzero
\* and b[i] if it is zero, and reads for lane i only lane i of m, a and b.
C4_SelectPerLane ==
    SelectWellFormed =>
        /\ \A j \in DOMAIN ret :
              ret[j] = IF call.a.lanes[j] # 0 THEN call.b.lanes[j] ELSE call.c.lanes[j]
        /\ reads = {<<"m", j>> : j \in DOMAIN ret} \cup {<<"a", j>> : j \in DOMAIN ret}
                      \cup {<<"b", j>> : j \in DOMAIN ret}
        /\ pc \in Terminal =>
              /\ pc = "returned"
              /\ DOMAIN ret = 0 .. call.a.ty.count - 1
              /\ diags = <<>>

\* The documented example: select([1,0,1], [10,20,30], [1,2,3]) = [10,2,30].
C4_Witness ==
    /\ SelectWellFormed /\ pc = "returned"
    /\ call.a = M3 /\ call.b = A3 /\ call.c = B3
    /\ ret = Vec(<<10, 2, 30>>)

\* ------------------------------------------------------------------ C6

IsReduce == Family(call.intrinsic) \in {"reduce_add", "reduce_mul", "reduce"}

ReduceWellFormed == IsReduce /\ is_simd(call.a.ty) /\ call.ret = ScalarTy(call.a.ty.kind)

\* The combinator a reduction stands for; the ordered and the unordered
\* entry point of add and of mul stand for the same one.
CombinatorOf(stem) ==
    CASE stem \in {"simd_reduce_add_ordered", "simd_reduce_add_unordered"} -> "add"
      [] stem \in {"simd_reduce_mul_ordered", "simd_reduce_mul_unordered"} -> "mul"
      [] stem = "simd_reduce_and" -> "and"
      [] stem = "simd_reduce_or" -> "or"
      [] stem = "simd_reduce_xor" -> "xor"
      [] stem = "simd_reduce_min" -> "min"
      [] stem = "simd_reduce_max" -> "max"

Less(kind, a, b) ==
    CASE kind.cls = "Int" -> ToSigned(a, kind.bits) < ToSigned(b, kind.bits)
      [] kind.cls = "Uint" -> a < b
      [] kind.cls = "Float" -> ~IsNaN(a) /\ ~IsNaN(b) /\ a[2] < b[2]

\* f(a, b) for the combinator f: wrapping arithmetic and bitwise operations
\* on integer lanes, one float instruction on float lanes, and for min / max
\* the left operand when it compares less / greater, else the right one.
Combine(f, kind, a, b) ==
    CASE f = "add" -> IF kind.cls = "Float" THEN <<"fadd", a, b>> ELSE (a + b) % Pow2(kind.bits)
      [] f = "mul" -> IF kind.cls = "Float" THEN <<"fmul", a, b>> ELSE (a * b) % Pow2(kind.bits)
      [] f = "and" -> BitOp("band", a, b, kind.bits)
      [] f = "or" -> BitOp("bor", a, b, kind.bits)
      [] f = "xor" -> BitOp("bxor", a, b, kind.bits)
      [] f = "min" -> IF Less(kind, a, b) THEN a ELSE b
      [] f = "max" -> IF Less(kind, b, a) THEN a ELSE b

\* f(...f(f(s, lane[from]), lane[from+1])..., lane[upto-1])
RECURSIVE LeftFold(_, _, _, _, _, _)
LeftFold(f, kind, s, lanes, from, upto) ==
    IF from >= upto THEN s
    ELSE LeftFold(f, kind, Combine(f, kind, s, lanes[from]), lanes, from + 1, upto)

\* The left fold the claim names, over the first `upto` lanes.
ReduceExpected(upto) ==
    IF Seeded(call.intrinsic)
    THEN LeftFold(CombinatorOf(call.intrinsic.stem), call.a.ty.kind,
                  call.b.lanes[0], call.a.lanes, 0, upto)
    ELSE LeftFold(CombinatorOf(call.intrinsic.stem), call.a.ty.kind,
                  call.a.lanes[0], call.a.lanes, 1, upto)

\* C6: a seeded reduction (add, mul; ordered or unordered) over L lanes
\* returns the left fold f(...f(f(s, lane[0]), lane[1])..., lane[L-1]) of the
\* combinator, the same for the ordered and the unordered entry point; an
\* unseeded reduction (and, or, xor, min, max) returns the left fold that
\* starts from lane[0] and combines lane[1..L] in index order.  While the
\* fold runs the accumulator is the fold of the lanes read so far.
C6_ReduceLeftFold ==
    ReduceWellFormed =>
        /\ pc = "simd_reduce_loop" =>
              /\ acc = ReduceExpected(i)
              /\ reads = {<<"v", j>> : j \in 0 .. i - 1}
        /\ pc \in Terminal =>
              /\ pc = "returned"
              /\ ret = (0 :> ReduceExpected(call.a.ty.count))
              /\ diags = <<>>

\* An unordered float add has returned ((s + lane0) + lane1), with distinct
\* lanes, and not any other association.
C6_Witness ==
    /\ ReduceWellFormed /\ pc = "returned"
    /\ call.intrinsic.stem = "simd_reduce_add_unordered"
    /\ call.a.ty.kind.cls = "Float" /\ call.a.ty.count = 2
    /\ call.a.lanes[0] # call.a.lanes[1]
    /\ ret[0] = <<"fadd", <<"fadd", call.b.lanes[0], call.a.lanes[0]>>, call.a.lanes[1]>>

\* ------------------------------------------------------------------ C7

IsCmp == Family(call.intrinsic) = "cmp"

CmpWellFormed ==
    /\ IsCmp
    /\ is_simd(call.a.ty) /\ call.a.ty = call.b.ty
    /\ is_simd(call.ret) /\ call.ret.count = call.a.ty.count

\* The comparison an intrinsic stands for, on numbers.
Relation(stem, u, v) ==
    CASE stem = "simd_eq" -> u = v
      [] stem = "simd_ne" -> u # v
      [] stem = "simd_lt" -> u < v
      [] stem = "simd_le" -> u <= v
      [] stem = "simd_gt" -> u > v
      [] stem = "simd_ge" -> u >= v

\* The per-lane comparison: on the signed reading of signed lanes, on the
\* unsigned reading of unsigned lanes, and on floats the IEEE comparison
\* (with a NaN operand only `ne` is true).
Compares(stem, kind, x, y) ==
    CASE kind.cls = "Int" -> Relation(stem, ToSigned(x, kind.bits), ToSigned(y, kind.bits))
      [] kind.cls = "Uint" -> Relation(stem, x, y)
      [] kind.cls = "Float" ->
           IF IsNaN(x) \/ IsNaN(y) THEN stem = "simd_ne" ELSE Relation(stem, x[2], y[2])

AllOnes(bits) == Pow2(bits) - 1

\* C7: every lane a comparison writes is 0 or the all-ones pattern 2^w - 1
\* of the result lane width w, all-ones exactly when the comparison of the
\* two input lanes (signed for signed lanes, unsigned for unsigned lanes) is
\* true, and never 1 when w > 1; the comparison returns with every lane
\* written.
C7_CompareMask ==
    CmpWellFormed =>
        /\ \A j \in DOMAIN ret :
              /\ ret[j] \in {0, AllOnes(call.ret.kind.bits)}
              /\ ret[j] = AllOnes(call.ret.kind.bits)
                    <=> Compares(call.intrinsic.stem, call.a.ty.kind, call.a.lanes[j], call.b.lanes[j])
              /\ call.ret.kind.bits > 1 => ret[j] # 1
        /\ pc \in Terminal =>
              /\ pc = "returned"
              /\ DOMAIN ret = 0 .. call.a.ty.count - 1

\* A signed simd_lt has returned all-ones for 128 < 1 (-128 < 1) and zero
\* for 1 < 1, at result width 16.
C7_Witness ==
    /\ CmpWellFormed /\ pc = "returned"
    /\ call.intrinsic.stem = "simd_lt" /\ call.a.ty.kind = I8 /\ call.ret.kind = I16
    /\ call.a.lanes = Vec(<<128, 1>>) /\ call.b.lanes = Vec(<<1, 1>>)
    /\ ret = Vec(<<65535, 0>>)

\* ------------------------------------------------------------------ C8, C9

\* The names of the supported operations: the symbols of the arms, and
\* simd_shuffle with no suffix or with a numeric suffix.
SupportedName(name) ==
    \/ /\ name.suffix = <<>>
       /\ name.stem \in {"simd_cast", "simd_insert", "simd_extract", "simd_neg", "simd_fma",
                          "simd_round", "simd_select", "simd_shuffle"}
                         \cup CmpNames \cup BinopNames \cup FminmaxNames \cup FunaryNames
                         \cup ReduceAddNames \cup ReduceMulNames \cup ReduceNoSeedNames
                         \cup ReduceBoolNames
    \/ /\ name.stem = "simd_shuffle"
       /\ ParseU16(name.suffix) >= 0

\* C8: a name that is no supported operation (bitmask, gather, scatter, the
\* saturating operations, a name that begins with simd_shuffle and has no
\* valid numeric suffix, any other string) ends the lowering with a fatal
\* error that cites the name, with no lane read and no lane written.
C8_UnknownNameFatal ==
    (prev = <<>> /\ ~SupportedName(call.intrinsic) /\ pc \in Terminal) =>
        /\ pc = "fatal"
        /\ diags = <<Diag("fatal", "Unknown SIMD intrinsic", <<call.intrinsic>>)>>
        /\ reads = {} /\ ret = NoLanes

\* What holds of the names no arm matches.
C8_FallbackArmFatal ==
    (Family(call.intrinsic) = "unknown" /\ pc # "dispatch") =>
        /\ pc = "fatal"
        /\ diags = <<Diag("fatal", "Unknown SIMD intrinsic", <<call.intrinsic>>)>>
        /\ reads = {} /\ ret = NoLanes

\* The type of the first vector operand that is no SIMD type, if any: the
\* first operand, and for simd_select the mask and then a.
NonSimdOperand ==
    IF ~is_simd(call.a.ty) THEN {call.a.ty}
    ELSE IF IsSelect /\ ~is_simd(call.b.ty) THEN {call.b.ty}
    ELSE {}

\* C9: in every supported operation the vector operand is confirmed to be a
\* vector before any lane is read or written: with an operand that is no
\* vector the lowering returns with one error that names the operation and
\* the type, one trap, and nothing read or written.
C9_ValidatedFirst ==
    (Family(call.intrinsic) # "unknown" /\ NonSimdOperand # {}) =>
        /\ reads = {} /\ ret = NoLanes
        /\ pc \in Terminal =>
              /\ pc = "returned"
              /\ traps = 1
              /\ \E ty \in NonSimdOperand :
                    diags = <<Diag("error", "invalid monomorphization", <<call.intrinsic, ty>>)>>

\* What holds of every arm but simd_insert.
C9_ValidatedFirstButInsert ==
    (Family(call.intrinsic) \notin {"unknown", "insert"} /\ NonSimdOperand # {}) =>
        /\ reads = {} /\ ret = NoLanes
        /\ pc \in Terminal =>
              /\ pc = "returned"
              /\ traps = 1
              /\ \E ty \in NonSimdOperand :
                    diags = <<Diag("error", "invalid monomorphization", <<call.intrinsic, ty>>)>>

\* ------------------------------------------------------------------ C11

\* The constant-evaluation service (mir_operand_get_const_val) is asked at
\* these positions: the first statement of the simd_insert arm, the
\* `let indexes` block of the simd_shuffle arm, and the statement after the
\* validation of the simd_extract arm.
AsksConstInsert == pc = "insert"
AsksConstShuffle == pc = "shuffle_indexes"
AsksConstExtract == pc = "extract_const"

\* The service answers "not constant" for the index operand.
NotConst == ~call.idx.konst

\* The compilation ends: span_fatal, or a panic of the compiler.
CompilationEnds == pc \in {"fatal", "panic"}

\* The diagnostics that report an index that is no constant.
NotConstKinds ==
    {"Index argument for simd_insert is not a constant",
     "Index argument for simd_extract is not a constant",
     "simd_shuffle* idx not const"}

\* The step in which simd_insert or a simd_shuffle form gets the answer "not
\* constant": it ends the compilation, with no lane read and nothing written.
InsertShuffleNotConstStep ==
    ((AsksConstInsert \/ AsksConstShuffle) /\ NotConst) =>
        /\ CompilationEnds'
        /\ reads = {} /\ ret = NoLanes
        /\ reads' = {} /\ ret' = NoLanes
        /\ traps' = traps
        /\ Len(diags') = Len(diags) + 1
        /\ diags'[Len(diags')].kind \in NotConstKinds

\* The step in which simd_extract gets that answer: a warning, a trap, a
\* placeholder in the destination, and a normal return.
ExtractNotConstStep ==
    (AsksConstExtract /\ NotConst) =>
        /\ pc' = "returned"
        /\ diags' = Append(diags,
               Diag("warning", "Index argument for simd_extract is not a constant", <<>>))
        /\ traps' = traps + 1
        /\ reads' = {}
        /\ ret' = (0 :> trap_unimplemented_ret_value(call.ret))

\* A handler that has returned after reporting an index that is no constant
\* is the one of simd_extract; the others that report it have not returned.
OnlyExtractRecovers ==
    (\E d \in 1 .. Len(diags) : diags[d].kind \in NotConstKinds) =>
        IF Family(call.intrinsic) = "extract"
        THEN pc = "returned" /\ diags[Len(diags)].sev = "warning"
        ELSE /\ CompilationEnds
             /\ Family(call.intrinsic) \in {"insert", "shuffle"}
             /\ reads = {} /\ ret = NoLanes

\* C11: when the constant-evaluation service answers "not constant" for the
\* index operand, simd_insert and every form of simd_shuffle end the
\* compilation (span_fatal, or a panic) before any lane is read and before
\* anything is written to the destination; simd_extract alone recovers from
\* that answer, with a warning, a trap and a placeholder value.
C11_NotConstFatalButExtract ==
    /\ [][InsertShuffleNotConstStep /\ ExtractNotConstStep]_vars
    /\ []OnlyExtractRecovers

\* The suffix-less simd_shuffle got the answer "not constant" and the
\* compiler has panicked on it with nothing read or written.
C11_Witness ==
    /\ call.intrinsic = Sym("simd_shuffle")
    /\ NotConst
    /\ pc = "panic"
    /\ diags = <<Diag("panic", "simd_shuffle* idx not const", <<>>)>>
    /\ reads = {} /\ ret = NoLanes

\* simd_insert got the answer "not constant" and ended in span_fatal.
C11_WitnessInsert ==
    /\ Family(call.intrinsic) = "insert"
    /\ NotConst
    /\ pc = "fatal"
    /\ diags = <<Diag("fatal", "Index argument for simd_insert is not a constant", <<>>)>>
    /\ reads = {} /\ ret = NoLanes

\* ------------------------------------------------------------------ C12

\* The lanes of the destination: those of a vector, the one value of a scalar.
DestLanes == IF is_simd(call.ret) THEN 0 .. call.ret.count - 1 ELSE {0}

\* (a) the handler returned, reported nothing, and every lane of the
\* destination is written.
OutcomeWritten ==
    /\ pc = "returned"
    /\ diags = <<>>
    /\ traps = 0
    /\ DOMAIN ret = DestLanes

\* A value written in place of a result: that of trap_unimplemented_ret_value.
PlaceholderWritten == \E lane \in DOMAIN ret : ret[lane] = trap_unimplemented_ret_value(call.ret)

\* (b) the handler returned after one error or warning, and has emitted a
\* trap or written a placeholder.
OutcomeRecovered ==
    /\ pc = "returned"
    /\ Len(diags) = 1
    /\ diags[1].sev \in {"error", "warning"}
    /\ traps >= 1 \/ PlaceholderWritten

\* (c) the compilation is ended: span_fatal, or a panic of the compiler.
OutcomeFatal ==
    /\ pc \in {"fatal", "panic"}
    /\ Len(diags) = 1
    /\ diags[1].sev = pc

\* The handler is at its end in exactly one of the three outcomes, and at
\* no position has it recorded more than one diagnostic.
OneOutcome ==
    /\ Len(diags) <= 1
    /\ pc \in Terminal =>
          /\ OutcomeWritten \/ OutcomeRecovered \/ OutcomeFatal
          /\ ~(OutcomeWritten /\ OutcomeRecovered)
          /\ ~(OutcomeWritten /\ OutcomeFatal)
          /\ ~(OutcomeRecovered /\ OutcomeFatal)
          /\ (pc = "returned" /\ diags # <<>>) => (traps >= 1 \/ PlaceholderWritten)

\* C12: every invocation of the lowering for one call ends, and ends in
\* exactly one of: (a) the destination fully written and no diagnostic, (b)
\* a return after exactly one diagnostic with a trap emitted or a placeholder
\* written, (c) the compilation ended; no handler has returned after a
\* diagnostic without a trap or placeholder, and none records more than one
\* diagnostic (simd_select with a non-vector mask and a non-vector a
\* reports once).
C12_OneOutcome == []OneOutcome /\ <>[](pc \in Terminal)

\* simd_select with a mask and an a that are both no vectors has returned
\* with the one diagnostic, about the mask, and one trap.
C12_Witness ==
    /\ Family(call.intrinsic) = "select"
    /\ ~is_simd(call.a.ty) /\ ~is_simd(call.b.ty)
    /\ pc = "returned"
    /\ diags = <<Diag("error", "invalid monomorphization", <<call.intrinsic, call.a.ty>>)>>
    /\ traps = 1
    /\ ret = NoLanes

\* ------------------------------------------------------------------ C13

IsFma == Family(call.intrinsic) = "fma"

\* Some lane has been read or written.
LaneTouched == reads # {} \/ ret # NoLanes

\* The handler has ended on a failed assert_eq! of two layouts, or has not
\* ended, and no lane has been read or written.
AbortsBeforeLanes ==
    /\ ~LaneTouched
    /\ pc \in Terminal =>
          /\ pc = "panic"
          /\ Len(diags) = 1
          /\ diags[1].kind = "assert_eq layout"

\* The handler has returned with nothing reported, and the lanes written
\* are those of the destination.
WrittenLanesAreDest ==
    (pc = "returned" /\ diags = <<>>) =>
        /\ DOMAIN ret = 0 .. call.ret.count - 1
        /\ Cardinality(DOMAIN ret) = call.ret.count

\* simd_fma: a, b, c of one type.
FmaIdentical == call.a.ty = call.b.ty /\ call.a.ty = call.c.ty

\* simd_select: the value operands a, b of one type (operands b, c of the call).
SelectValuesIdentical == call.b.ty = call.c.ty

\* simd_select: the mask of that type too (operand a of the call).
SelectAllIdentical == call.a.ty = call.b.ty /\ SelectValuesIdentical

C13_WitnessFma ==
    /\ IsFma
    /\ call.a.ty = call.b.ty
    /\ call.c.ty.kind = call.a.ty.kind /\ call.c.ty.count # call.a.ty.count
    /\ pc = "panic"
    /\ ~LaneTouched

====
